---- MODULE Spec2Model ----
(***************************************************************************)
(* Model of the debate workflow of src/graph.py (the nodes agent_node and  *)
(* judge_node, the router, and the compiled graph of get_graph) as run by  *)
(* src/main.py (initial_state, app.stream with recursion_limit 15).        *)
(*                                                                         *)
(* Texts.  agent_node only compares the generated text for equality with   *)
(* the contents already in the transcript, so an utterance text is an      *)
(* atomic string.  judge_node cuts the judge's answer at the three label   *)
(* markers, so a judge answer is a sequence of tokens: each marker is one  *)
(* token (two occurrences of markers can never overlap in a Python string, *)
(* each marker ending in its only ':'), and every other token is one       *)
(* character that is part of no marker.                                    *)
(*                                                                         *)
(* Libraries.  langchain/langgraph are not part of the repository.  They   *)
(* are modelled by their documented behaviour: chain.invoke returns a      *)
(* string or raises; AnyMessage(content, name) builds a message carrying   *)
(* these two fields; the "messages" channel is reduced with x + y, the     *)
(* other channels keep the last value written; recursion_limit is the      *)
(* number of supersteps (node invocations here) a run may take, and a run  *)
(* that has work left when it is used up raises GraphRecursionError.       *)
(***************************************************************************)
EXTENDS Integers, Sequences, FiniteSets, TLC

VARIABLES
    topic,          \* GraphState.topic
    messages,       \* GraphState.messages: sequence of [content, name]
    round_number,   \* GraphState.round_number
    next_speaker,   \* GraphState.next_speaker
    winner,         \* GraphState.winner:        << >> while unset, <<v>> once set
    justification,  \* GraphState.justification: << >> while unset, <<v>> once set
    summary,        \* GraphState.summary:       << >> while unset, <<v>> once set
    pc,             \* node the graph runs next, or how the run ended
    steps,          \* supersteps (node invocations) completed by app.stream
    response,       \* agent_node's local `response` as returned by chain.invoke
    result,         \* judge_node's local `result` as returned by chain.invoke
    stub_fields,    \* the <<S, W, J>> a well-formed judge answer was built from
    gen_calls,      \* number of chain.invoke calls made so far
    judge_runs,     \* number of judge_node invocations so far
    history         \* the string format_history returned, when called alone

vars == <<topic, messages, round_number, next_speaker, winner, justification,
          summary, pc, steps, response, result, stub_fields, gen_calls,
          judge_runs, history>>

state == <<topic, messages, round_number, next_speaker, winner, justification,
           summary>>

-----------------------------------------------------------------------------
(* Bounds of the model *)

\* Number of tokens of a free-form judge answer, and of the three texts S, W
\* and J of a well-formed answer taken together.
MaxTokens == 4

\* The router is probed on round numbers 0 .. MaxProbe.
MaxProbe == 12

\* Largest round number a run of the compiled graph is started from.
MaxStartRound == 10

\* Length of the transcripts format_history is applied to on its own.
MaxHistory == 3

\* Number of characters of an utterance text in these transcripts.
MaxTextLen == 1

-----------------------------------------------------------------------------
(* Program constants *)

RoundLimit == 8

RecursionLimit == 15

Scientist == "Scientist"

Philosopher == "Philosopher"

Filler == "I will restate my previous point to emphasize its importance."

SUMMARY == "SUMMARY:"

WINNER == "WINNER:"

JUSTIFICATION == "JUSTIFICATION:"

FailedSummary == <<"The judge failed to provide a structured summary.">>

NoWinner == <<"No winner declared">>

Malformed == <<"The judge's output was malformed.">>

END == "END"

GenerationError == "GenerationError"

GraphRecursionError == "GraphRecursionError"

Topics == {"topic A", "topic B"}

Unset == << >>

-----------------------------------------------------------------------------
(* Texts the generation stub may return in a turn *)

\* The k-th text the stub has never returned before.
Fresh(k) == "argument " \o ToString(k)

Contents(msgs) == {msgs[i].content : i \in 1..Len(msgs)}

\* A text not yet in the transcript, a text equal to an earlier utterance,
\* or the filler sentence itself.
AgentOutputs(msgs, k) == {Fresh(k)} \cup Contents(msgs) \cup {Filler}

-----------------------------------------------------------------------------
(* format_history *)

\* The speaker label format_history gives the message at 0-based index i.
HistoryLabel(i) == IF i % 2 = 0 THEN Scientist ELSE Philosopher

NotStarted == <<"The debate has not started yet.">>

-----------------------------------------------------------------------------
(* Python string operations on token sequences *)

Whitespace == {" ", "\n"}

Positions(s, sep) == {i \in 1..Len(s) : s[i] = sep}

First(S) == CHOOSE i \in S : \A j \in S : i <= j

\* s.split(sep): the pieces of s between the occurrences of sep, left to right.
RECURSIVE Split(_, _)
Split(s, sep) ==
    IF Positions(s, sep) = {}
    THEN <<s>>
    ELSE LET i == First(Positions(s, sep))
         IN  <<SubSeq(s, 1, i - 1)>> \o Split(SubSeq(s, i + 1, Len(s)), sep)

\* s.strip(): s without its leading and trailing whitespace.
Strip(s) ==
    LET keep == {i \in 1..Len(s) : s[i] \notin Whitespace}
    IN  IF keep = {}
        THEN << >>
        ELSE SubSeq(s, First(keep), CHOOSE i \in keep : \A j \in keep : j <= i)

-----------------------------------------------------------------------------
(* format_history on transcripts whose texts are sequences of characters *)

\* Mutant: the round is numbered from 0.
HistoryLine_ZeroBased(i, msg) ==
    <<"[Round " \o ToString(i) \o "] " \o HistoryLabel(i) \o ":", " ">>
        \o msg.content \o <<"\n">>

\* f"[Round {i+1}] {speaker}: {msg.content}\n" for the message at index i;
\* the part up to the colon is one token, as it holds no whitespace that
\* strip() could reach.
HistoryLine(i, msg) ==
    <<"[Round " \o ToString(i + 1) \o "] " \o HistoryLabel(i) \o ":", " ">>
        \o msg.content \o <<"\n">>

\* history_str after the first n messages.
RECURSIVE HistoryStr(_, _)
HistoryStr(msgs, n) ==
    IF n = 0
    THEN << >>
    ELSE HistoryStr(msgs, n - 1) \o HistoryLine(n - 1, msgs[n])

format_history(msgs) ==
    IF msgs = << >> THEN NotStarted ELSE Strip(HistoryStr(msgs, Len(msgs)))

-----------------------------------------------------------------------------
(* judge_node: parsing of the judge's answer *)

\* Mutant: the parser also gives up when the labels are not in order.
RaisesIndexError_OutOfOrder(res) ==
    \/ Len(Split(res, SUMMARY)) < 2
    \/ Len(Split(res, WINNER)) < 2
    \/ Len(Split(res, JUSTIFICATION)) < 2
    \/ First(Positions(res, WINNER)) < First(Positions(res, SUMMARY))
    \/ First(Positions(res, JUSTIFICATION)) < First(Positions(res, WINNER))

\* x.split(sep)[1] raises IndexError exactly when sep does not occur in x.
RaisesIndexError(res) ==
    \/ Len(Split(res, SUMMARY)) < 2
    \/ Len(Split(res, WINNER)) < 2
    \/ Len(Split(res, JUSTIFICATION)) < 2

\* Mutant: the summary is not stripped.
ParseSummary_NoStrip(res) == Split(Split(res, SUMMARY)[2], WINNER)[1]

ParseSummary(res) == Strip(Split(Split(res, SUMMARY)[2], WINNER)[1])

ParseWinner(res) == Strip(Split(Split(res, WINNER)[2], JUSTIFICATION)[1])

ParseJustification(res) == Strip(Split(res, JUSTIFICATION)[2])

\* Mutant: each field is parsed under its own try and falls back alone.
JudgeOutput_FieldByField(res) ==
    [summary |-> IF Len(Split(res, SUMMARY)) < 2
                 THEN FailedSummary
                 ELSE ParseSummary(res),
     winner |-> IF Len(Split(res, WINNER)) < 2
                THEN NoWinner
                ELSE ParseWinner(res),
     justification |-> IF Len(Split(res, JUSTIFICATION)) < 2
                       THEN Malformed
                       ELSE ParseJustification(res)]

\* Mutant: the returned dictionary lacks the justification.
JudgeOutput_NoJustification(res) ==
    IF RaisesIndexError(res)
    THEN [summary |-> FailedSummary, winner |-> NoWinner]
    ELSE [summary |-> ParseSummary(res), winner |-> ParseWinner(res)]

\* Mutant: the judge's dictionary also resets the round number.
JudgeOutput_ResetsRound(res) ==
    IF RaisesIndexError(res)
    THEN [summary |-> FailedSummary, winner |-> NoWinner,
          justification |-> Malformed, round_number |-> 0]
    ELSE [summary |-> ParseSummary(res), winner |-> ParseWinner(res),
          justification |-> ParseJustification(res), round_number |-> 0]

\* The dictionary judge_node returns for the answer res.
JudgeOutput(res) ==
    IF RaisesIndexError(res)
    THEN [summary |-> FailedSummary, winner |-> NoWinner,
          justification |-> Malformed]
    ELSE [summary |-> ParseSummary(res), winner |-> ParseWinner(res),
          justification |-> ParseJustification(res)]

-----------------------------------------------------------------------------
(* Answers of the judge stub *)

Tokens == {SUMMARY, WINNER, JUSTIFICATION, "a", " "}

SeqUpTo(n) == UNION {[1..k -> Tokens] : k \in 0..n}

\* Texts in which the judge spells out the three fallback sentences.
EchoTexts == {FailedSummary \o NoWinner \o Malformed}

\* "SUMMARY: S\nWINNER: W\nJUSTIFICATION: J"
WellFormed(S, W, J) ==
    <<SUMMARY, " ">> \o S \o <<"\n", WINNER, " ">> \o W
        \o <<"\n", JUSTIFICATION, " ">> \o J

\* The answers used in the end-to-end runs: one well-formed, one with a
\* label inside a text, one missing a label, one without any label.
SampleAnswers ==
    {[text |-> WellFormed(<<"a">>, <<"a", " ">>, <<"a", "a">>),
      fields |-> <<<<"a">>, <<"a", " ">>, <<"a", "a">>>>],
     [text |-> WellFormed(<<"a", WINNER>>, <<"a">>, <<"a">>),
      fields |-> <<<<"a", WINNER>>, <<"a">>, <<"a">>>>],
     [text |-> <<SUMMARY, " ", "a", "\n", WINNER, " ", "a">>, fields |-> << >>],
     [text |-> <<"a", " ", "a">>, fields |-> << >>]}

-----------------------------------------------------------------------------
(* agent_node *)

\* Mutant: the guard looks only at the speaker's own earlier utterances.
RepetitionGuard_OwnOnly(resp, msgs) ==
    IF \E i \in 1..Len(msgs) : (Len(msgs) + 1 - i) % 2 = 0 /\ msgs[i].content = resp
    THEN Filler
    ELSE resp

\* Mutant: the guard looks only at the last utterance.
RepetitionGuard_LastOnly(resp, msgs) ==
    IF Len(msgs) > 0 /\ msgs[Len(msgs)].content = resp THEN Filler ELSE resp

\* "State Validation": a text already in the transcript becomes the filler.
RepetitionGuard(resp, msgs) ==
    IF resp \in Contents(msgs) THEN Filler ELSE resp

\* AnyMessage(content=response, name=speaker)
NewMessage(resp, speaker) == [content |-> resp, name |-> speaker]

\* Mutant: the speaker is not flipped.
OtherSpeaker_NoFlip(speaker) == speaker

\* Mutant: both branches of the flip name the Philosopher.
OtherSpeaker_AlwaysPhilosopher(speaker) == Philosopher

OtherSpeaker(speaker) ==
    IF speaker = Scientist THEN Philosopher ELSE Scientist

\* Mutant: the channel has no reducer and keeps the last value written.
AddMessages_Overwrite(x, y) == y

\* The "messages" channel's reducer, lambda x, y: x + y.
AddMessages(x, y) == x \o y

-----------------------------------------------------------------------------
(* router and the compiled graph *)

\* Mutant: the threshold is compared with > instead of >=.
router_StrictlyGreater(rn) == IF rn > RoundLimit THEN "judge" ELSE "agent"

\* Mutant: the two branches are swapped.
router_Swapped(rn) == IF rn >= RoundLimit THEN "agent" ELSE "judge"

router(rn) == IF rn >= RoundLimit THEN "judge" ELSE "agent"

\* The router stub of the iteration-ceiling scenario.
AlwaysContinue(rn) == "agent"

\* Mutant: the limit is the number of rounds.
Schedule_RoundLimit(next, n) ==
    IF next # END /\ n >= RoundLimit THEN GraphRecursionError ELSE next

\* Mutant: the limit is passed as 16.
Schedule_OneMore(next, n) ==
    IF next # END /\ n >= RecursionLimit + 1 THEN GraphRecursionError ELSE next

\* app.stream(initial_state, {"recursion_limit": 15}): after n supersteps a
\* run that still has a node to run is aborted when n has reached the limit.
Schedule(next, n) ==
    IF next # END /\ n >= RecursionLimit THEN GraphRecursionError ELSE next

\* Mutant: a repeated text is generated again before the filler is used.
GenerationCalls_RetryOnRepeat(resp, msgs) ==
    IF resp \in Contents(msgs) THEN 2 ELSE 1

\* chain.invoke calls agent_node makes in a turn whose call returns resp: the
\* one call, with no loop around it and no second call in the guard.
GenerationCalls(resp, msgs) == 1

\* The function behind the conditional edge: router, or its stub.
Route(stubbed, rn) == IF stubbed THEN AlwaysContinue(rn) ELSE router(rn)

\* The dictionary agent_node returns when chain.invoke has returned resp.
AgentUpdate(resp, msgs, rn, speaker) ==
    [messages |-> <<NewMessage(RepetitionGuard(resp, msgs), speaker)>>,
     round_number |-> rn + 1,
     next_speaker |-> OtherSpeaker(speaker)]

\* The merge of a node's update into a channel that keeps the last value
\* written: the channel changes only if the update has the key.
Written(key, old, update) ==
    IF key \in DOMAIN update THEN update[key] ELSE old

\* The same for winner, justification and summary, which have no value
\* until they are written.
WrittenOnce(key, old, update) ==
    IF key \in DOMAIN update THEN <<update[key]>> ELSE old

\* The merge into the "messages" channel, which has the reducer.
Reduced(old, update) ==
    IF "messages" \in DOMAIN update
    THEN AddMessages(old, update.messages)
    ELSE old

\* The merge of a node's update into the graph state.
Merge(update) ==
    /\ topic' = Written("topic", topic, update)
    /\ messages' = Reduced(messages, update)
    /\ round_number' = Written("round_number", round_number, update)
    /\ next_speaker' = Written("next_speaker", next_speaker, update)
    /\ winner' = WrittenOnce("winner", winner, update)
    /\ justification' = WrittenOnce("justification", justification, update)
    /\ summary' = WrittenOnce("summary", summary, update)

\* One turn: agent_node, the merge of its update, then the conditional edge.
AgentNode(stubbed) ==
    \E r \in AgentOutputs(messages, gen_calls + 1) :
        /\ response' = r
        /\ gen_calls' = gen_calls + GenerationCalls(r, messages)
        /\ Merge(AgentUpdate(r, messages, round_number, next_speaker))
        /\ steps' = steps + 1
        /\ pc' = Schedule(Route(stubbed, round_number'), steps')
        /\ UNCHANGED <<result, stub_fields, judge_runs, history>>

\* judge_node on the answer `text` of the stub (built from `fields` when it
\* is well-formed), the merge of its update, then the edge to END.
JudgeReturns(text, fields) ==
    /\ result' = text
    /\ stub_fields' = fields
    /\ gen_calls' = gen_calls + 1
    /\ judge_runs' = judge_runs + 1
    /\ Merge(JudgeOutput(text))
    /\ steps' = steps + 1
    /\ pc' = Schedule(END, steps')
    /\ UNCHANGED <<response, history>>

\* Adjudication.  With `all`, the stub answers any text b of at most MaxTokens
\* tokens (or one of the echo texts), either as it is or cut at i and j into
\* S, W and J and put in the well-formed frame; otherwise it gives one of the
\* sample answers.
JudgeNode(all) ==
    IF all
    THEN \E b \in SeqUpTo(MaxTokens) \cup EchoTexts :
           \E i \in 0..Len(b) :
             \E j \in i..Len(b) :
               \E framed \in IF i = 0 /\ j = 0 THEN BOOLEAN ELSE {TRUE} :
                 IF framed
                 THEN JudgeReturns(WellFormed(SubSeq(b, 1, i),
                                              SubSeq(b, i + 1, j),
                                              SubSeq(b, j + 1, Len(b))),
                                   <<SubSeq(b, 1, i), SubSeq(b, i + 1, j),
                                     SubSeq(b, j + 1, Len(b))>>)
                 ELSE JudgeReturns(b, << >>)
    ELSE \E a \in SampleAnswers : JudgeReturns(a.text, a.fields)

\* Mutant: the failing node is run again.
OnGenerationFailure_Retry(node) == node

\* What becomes of the run when chain.invoke raises in node `node`: nothing
\* catches the exception, in the node, in the graph or in main.
OnGenerationFailure(node) == GenerationError

\* A superstep of the compiled graph: the scheduled node runs to completion.
RunNode(stubbed, all) ==
    CASE pc = "agent" -> AgentNode(stubbed)
      [] pc = "judge" -> JudgeNode(all)
      [] OTHER -> FALSE

\* A superstep in which the node's chain.invoke raises.
NodeFails ==
    /\ pc \in {"agent", "judge"}
    /\ gen_calls' = gen_calls + 1
    /\ judge_runs' = IF pc = "judge" THEN judge_runs + 1 ELSE judge_runs
    /\ pc' = OnGenerationFailure(pc)
    /\ UNCHANGED <<state, steps, response, result, stub_fields, history>>

-----------------------------------------------------------------------------
(* Specifications *)

NoText == ""

NoHistory == << >>

\* main: initial_state, entry point "agent".
Init ==
    /\ topic \in Topics
    /\ messages = << >>
    /\ round_number = 0
    /\ next_speaker = Scientist
    /\ winner = Unset
    /\ justification = Unset
    /\ summary = Unset
    /\ pc = "agent"
    /\ steps = 0
    /\ response = NoText
    /\ result = << >>
    /\ stub_fields = << >>
    /\ gen_calls = 0
    /\ judge_runs = 0
    /\ history = NoHistory

Next == RunNode(FALSE, FALSE) \/ NodeFails

\* The debate as main runs it.
Spec == Init /\ [][Next]_vars

\* The debate under the scheduling of app.stream, which runs the scheduled
\* node as long as there is one.
FairSpec == Spec /\ WF_vars(RunNode(FALSE, FALSE))

NextStubbedRouter == RunNode(TRUE, FALSE) \/ NodeFails

\* The debate with the router replaced by one that always continues.
SpecStubbedRouter == Init /\ [][NextStubbedRouter]_vars

\* The transcript of a debate in which every generated text was new.
UniqueDebate(n) ==
    [i \in 1..n |-> NewMessage(Fresh(i), HistoryLabel(i - 1))]

\* The state in which judge_node is entered after such a debate.
InitJudge ==
    /\ topic \in Topics
    /\ messages = UniqueDebate(RoundLimit)
    /\ round_number = RoundLimit
    /\ next_speaker = Scientist
    /\ winner = Unset
    /\ justification = Unset
    /\ summary = Unset
    /\ pc = "judge"
    /\ steps = RoundLimit
    /\ response = Fresh(RoundLimit)
    /\ result = << >>
    /\ stub_fields = << >>
    /\ gen_calls = RoundLimit
    /\ judge_runs = 0
    /\ history = NoHistory

NextJudge == RunNode(FALSE, TRUE) \/ NodeFails

\* Adjudication of a finished debate, over every answer of the judge stub.
SpecJudge == InitJudge /\ [][NextJudge]_vars

\* A transcript of n utterances of an earlier debate, all different.
EarlierDebate(n) ==
    [i \in 1..n |-> NewMessage("earlier " \o ToString(i), HistoryLabel(i - 1))]

\* app.stream(s, ...) for a state s other than main's initial_state: the
\* compiled graph is entered at "agent" whatever the state is.
InitAnyStart ==
    /\ topic \in Topics
    /\ round_number \in 0..MaxStartRound
    /\ messages = EarlierDebate(round_number)
    /\ next_speaker = HistoryLabel(round_number)
    /\ winner = Unset
    /\ justification = Unset
    /\ summary = Unset
    /\ pc = "agent"
    /\ steps = 0
    /\ response = NoText
    /\ result = << >>
    /\ stub_fields = << >>
    /\ gen_calls = 0
    /\ judge_runs = 0
    /\ history = NoHistory

\* The compiled graph run from any state.
SpecAnyStart == InitAnyStart /\ [][Next]_vars

TextChars == {"a", " ", "\n"}

Texts == UNION {[1..k -> TextChars] : k \in 0..MaxTextLen}

\* The transcripts of n utterances with these texts, named by turn.
Transcripts(n) ==
    {[i \in 1..n |-> NewMessage(c[i], HistoryLabel(i - 1))] :
        c \in [1..n -> Texts]}

\* A call of format_history on any transcript of at most MaxHistory utterances.
InitFormat ==
    /\ topic \in Topics
    /\ \E n \in 0..MaxHistory : messages \in Transcripts(n)
    /\ round_number = Len(messages)
    /\ next_speaker = HistoryLabel(Len(messages))
    /\ winner = Unset
    /\ justification = Unset
    /\ summary = Unset
    /\ pc = "format_history"
    /\ steps = Len(messages)
    /\ response = NoText
    /\ result = << >>
    /\ stub_fields = << >>
    /\ gen_calls = Len(messages)
    /\ judge_runs = 0
    /\ history = NoHistory

FormatHistory ==
    /\ pc = "format_history"
    /\ history' = format_history(messages)
    /\ pc' = "formatted"
    /\ UNCHANGED <<state, steps, response, result, stub_fields, gen_calls,
                   judge_runs>>

NextFormat == FormatHistory

\* format_history as a function of the transcript.
SpecFormat == InitFormat /\ [][NextFormat]_vars

-----------------------------------------------------------------------------
(* Properties *)

Done == pc = END

\* Turns completed so far: every superstep but the adjudication is a turn.
Turns == IF judge_runs > 0 /\ pc = END THEN steps - 1 ELSE steps

StartsWithScientist(msgs) ==
    \A i \in 1..Len(msgs) :
        msgs[i].name = IF i % 2 = 1 THEN Scientist ELSE Philosopher

\* C1: every complete run ends with a transcript of exactly 8 utterances whose
\* speakers alternate Scientist, Philosopher, ... starting with Scientist; the
\* Judge is invoked exactly once, after the 8th utterance and never before it.
C1_EndToEnd ==
    /\ Done => /\ Len(messages) = 8
               /\ StartsWithScientist(messages)
               /\ judge_runs = 1
    /\ judge_runs <= 1
    /\ judge_runs = 1 => Len(messages) = 8
    /\ pc = "judge" => Len(messages) = 8

\* A complete run in which the stub returned a different string on every call.
C1_Witness ==
    /\ Done
    /\ messages = UniqueDebate(8)
    /\ judge_runs = 1
    /\ gen_calls = 9

\* C2: in every reachable state, round_number equals the number of utterances
\* in the transcript.
C2_RoundIsLength == round_number = Len(messages)

\* After adjudication of a debate in which the repetition guard fired.
C2_Witness ==
    /\ Done
    /\ round_number = 8
    /\ Filler \in Contents(messages)

\* C3: the speaker stored on the utterance at 0-based index i is Scientist when
\* i is even and Philosopher when i is odd, and so agrees with the label that
\* format_history computes from the index.
C3_SpeakerParity ==
    \A i \in 0..(Len(messages) - 1) :
        /\ messages[i + 1].name = IF i % 2 = 0 THEN Scientist ELSE Philosopher
        /\ messages[i + 1].name = HistoryLabel(i)

C3_Witness ==
    /\ Len(messages) = 8
    /\ messages[7].name = Scientist
    /\ messages[8].name = Philosopher

\* C4: after k consecutive turns from the initial state next_speaker is
\* Scientist when k is even and Philosopher when k is odd, and each turn flips
\* next_speaker to the other persona.
C4_NextSpeakerAlternates ==
    /\ [](next_speaker = IF Turns % 2 = 0 THEN Scientist ELSE Philosopher)
    /\ [][(pc = "agent" /\ steps' = steps + 1) =>
            /\ next_speaker' # next_speaker
            /\ next_speaker' \in {Scientist, Philosopher}]_vars

C4_Witness ==
    /\ pc = "agent"
    /\ steps = 3
    /\ next_speaker = Philosopher

\* C5: the router returns "agent" for every round number in 0..7 and "judge"
\* for every round number >= 8, as a function of the round number alone; so
\* after every turn the node scheduled next is the one the round number gives.
C5_Router ==
    /\ \A n \in 0..MaxProbe :
           router(n) = IF n \in 0..7 THEN "agent" ELSE "judge"
    /\ (steps > 0 /\ pc \in {"agent", "judge"}) =>
           pc = IF round_number \in 0..7 THEN "agent" ELSE "judge"

\* The router has just returned "judge", having returned "agent" seven times.
C5_Witness ==
    /\ pc = "judge"
    /\ round_number = 8
    /\ steps = 8
    /\ judge_runs = 0

\* C6: in any turn, if the generated text equals the text of any utterance
\* already in the transcript the utterance appended is the filler sentence,
\* otherwise it is the generated text; in both cases the transcript grows by
\* exactly one element and round_number by exactly one.
C6_RepetitionGuard ==
    [][(pc = "agent" /\ steps' = steps + 1) =>
         /\ Len(messages') = Len(messages) + 1
         /\ round_number' = round_number + 1
         /\ messages'[Len(messages')].content =
                IF \E i \in 1..Len(messages) : messages[i].content = response'
                THEN Filler
                ELSE response']_vars

\* A turn in which the speaker repeated the opponent's last utterance (which
\* is not the filler) and the filler was appended in its place.
C6_Witness ==
    /\ Len(messages) >= 2
    /\ response # Filler
    /\ response = messages[Len(messages) - 1].content
    /\ messages[Len(messages)].content = Filler
    /\ round_number = Len(messages)

Labels == {SUMMARY, WINNER, JUSTIFICATION}

Occurs(label, text) == \E i \in 1..Len(text) : text[i] = label

\* The judge stub answered "SUMMARY: S\nWINNER: W\nJUSTIFICATION: J" and
\* judge_node has returned.
AnsweredWellFormed == Done /\ stub_fields # << >>

RoundTrip ==
    /\ summary = <<Strip(stub_fields[1])>>
    /\ winner = <<Strip(stub_fields[2])>>
    /\ justification = <<Strip(stub_fields[3])>>

\* C7 as stated: for every choice of the texts S, W and J the well-formed
\* answer is parsed back into S, W and J, each trimmed.
C7_RoundTripAnyTexts == AnsweredWellFormed => RoundTrip

\* The texts that do not disturb the cutting at the markers.
MarkerFree(S, W, J) ==
    /\ \A l \in Labels : ~Occurs(l, S)
    /\ ~Occurs(WINNER, W)
    /\ ~Occurs(JUSTIFICATION, W)
    /\ ~Occurs(JUSTIFICATION, J)

\* C7 (amended): the well-formed answer is parsed back into S, W and J, each
\* trimmed, for every S that contains none of the three markers, every W that
\* contains neither WINNER: nor JUSTIFICATION:, and every J that does not
\* contain JUSTIFICATION:.
C7_RoundTripMarkerFree ==
    (AnsweredWellFormed
        /\ MarkerFree(stub_fields[1], stub_fields[2], stub_fields[3]))
    => RoundTrip

\* A summary with surrounding whitespace came back trimmed.
C7_Witness ==
    /\ AnsweredWellFormed
    /\ stub_fields = <<<<" ", "a", " ">>, <<"a">>, << >>>>
    /\ summary = <<<<"a">>>>
    /\ winner = <<<<"a">>>>
    /\ justification = <<<< >>>>

\* C8: for every judge answer in which at least one of the three labels is
\* absent, judge_node returns all three sentinel values and the run still
\* reaches END; no error outcome is produced.
C8_Fallback ==
    (judge_runs = 1 /\ pc # GenerationError) =>
        /\ Done
        /\ (\E l \in Labels : ~Occurs(l, result)) =>
               /\ summary = <<FailedSummary>>
               /\ winner = <<NoWinner>>
               /\ justification = <<Malformed>>

\* The answer had the first two labels and lacked JUSTIFICATION:.
C8_Witness ==
    /\ Done
    /\ result = <<SUMMARY, "a", WINNER, "a">>
    /\ summary = <<FailedSummary>>
    /\ winner = <<NoWinner>>
    /\ justification = <<Malformed>>

Aborted == pc \in {GraphRecursionError, GenerationError}

\* C9: with a router that always continues the run does not go on forever:
\* it never takes more than 15 node invocations, once 15 are taken it has
\* aborted, the ceiling abort is an outcome other than END and comes at 15
\* invocations, and the Judge is never invoked.
C9_IterationCeiling ==
    /\ steps <= RecursionLimit
    /\ steps = RecursionLimit => Aborted
    /\ pc = GraphRecursionError => steps = 15 /\ Len(messages) = 15
    /\ ~Done
    /\ judge_runs = 0
    /\ winner = Unset

C9_Witness ==
    /\ pc = GraphRecursionError
    /\ steps = 15
    /\ round_number = 15
    /\ judge_runs = 0

\* C10: a generation failure during a turn or during adjudication aborts the
\* run with no retry: the failing node contributes no state update, no step
\* follows the abort, and after a failed turn the Judge has not been invoked.
C10_GenerationFailure ==
    [][/\ pc # GenerationError
       /\ (pc' = GenerationError \/ (gen_calls' = gen_calls + 1 /\ steps' = steps))
            => /\ pc' = GenerationError
               /\ UNCHANGED <<state, steps>>
               /\ pc = "agent" => judge_runs' = 0]_vars

\* The generation call of the fourth turn failed.
C10_Witness ==
    /\ pc = GenerationError
    /\ Len(messages) = 3
    /\ round_number = 3
    /\ next_speaker = Philosopher
    /\ gen_calls = 4
    /\ judge_runs = 0
    /\ winner = Unset

Formatted == pc = "formatted" /\ Len(messages) >= 1

Lines(text) == Split(text, "\n")

\* "[Round i] Label: text" for the i-th utterance (1-indexed).
ExpectedLine(i, text) ==
    <<"[Round " \o ToString(i) \o "] "
        \o (IF i % 2 = 1 THEN Scientist ELSE Philosopher) \o ":", " ">> \o text

\* s without its trailing whitespace.
RStrip(s) ==
    LET keep == {i \in 1..Len(s) : s[i] \notin Whitespace}
    IN  IF keep = {}
        THEN << >>
        ELSE SubSeq(s, 1, CHOOSE i \in keep : \A j \in keep : j <= i)

\* C11 as stated: whatever the texts, format_history returns exactly n lines
\* and line i is "[Round i] Label: text" with Label = Scientist iff i is odd.
C11_LinesAnyTexts ==
    Formatted =>
        /\ Len(Lines(history)) = Len(messages)
        /\ \A i \in 1..Len(messages) :
               Lines(history)[i] = ExpectedLine(i, messages[i].content)

NoLineBreak(msgs) ==
    \A i \in 1..Len(msgs) : ~Occurs("\n", msgs[i].content)

\* C11 (amended): for every non-empty transcript of length n whose texts hold
\* no line break, format_history returns exactly n lines and line i is
\* "[Round i] Label: text" with Label = Scientist iff i is odd, in transcript
\* order, the last line without its trailing whitespace.
C11_LinesNoLineBreak ==
    (Formatted /\ NoLineBreak(messages)) =>
        /\ Len(Lines(history)) = Len(messages)
        /\ \A i \in 1..Len(messages) :
               Lines(history)[i] =
                   IF i < Len(messages)
                   THEN ExpectedLine(i, messages[i].content)
                   ELSE RStrip(ExpectedLine(i, messages[i].content))

\* Three utterances, the second one blank, rendered as three lines.
C11_Witness ==
    /\ Formatted
    /\ Len(messages) = 3
    /\ messages[1].content = <<"a">>
    /\ messages[2].content = <<" ">>
    /\ messages[3].content = <<"a">>
    /\ history = <<"[Round 1] Scientist:", " ", "a", "\n",
                   "[Round 2] Philosopher:", " ", " ", "\n",
                   "[Round 3] Scientist:", " ", "a">>

\* The round number the run was started with.
StartRound == round_number - Turns

\* C12: a turn is taken only after the router has returned "agent" for the
\* current state: in a run started from a state whose round number is >= 8
\* no turn is taken (no utterance is appended, no persona generation call is
\* made) and control goes to adjudication.
C12_NoTurnFromRoundLimit ==
    StartRound >= 8 =>
        /\ Turns = 0
        /\ Len(messages) = StartRound
        /\ gen_calls = judge_runs
        /\ pc # "agent" \/ steps = 0

\* C13: under weak fairness of the node steps every run from the initial
\* state in which no generation call fails eventually reaches END (a run ends
\* otherwise only by a generation failure); END is reached after exactly 8
\* turns and no step leaves it.
C13_Termination ==
    /\ <>(Done \/ pc = GenerationError)
    /\ [](Done => Turns = 8 /\ Len(messages) = 8 /\ steps = 9)
    /\ [][~Done]_vars

C13_Witness ==
    /\ Done
    /\ Turns = 8
    /\ steps = 9
    /\ round_number = 8
    /\ gen_calls = 9

\* C14 as stated: in every reachable state the number of generation calls
\* made so far is round_number, plus 1 if adjudication has run.
C14_CallsAnyState ==
    gen_calls = round_number + (IF judge_runs > 0 THEN 1 ELSE 0)

\* C14 (amended): in every reachable state the number of generation calls
\* made so far is round_number, plus 1 if adjudication has completed, plus 1
\* if a generation call has failed (which ended the run); so a completed run
\* makes exactly 9 calls, also when the repetition guard has fired.
C14_CallsExactlyOnce ==
    /\ gen_calls = round_number + (IF Done THEN 1 ELSE 0)
                                + (IF pc = GenerationError THEN 1 ELSE 0)
    /\ Done => gen_calls = 9

\* A completed run in whose last turn the repetition guard fired.
C14_Witness ==
    /\ Done
    /\ gen_calls = 9
    /\ response # Filler
    /\ messages[8].content = Filler

IsPrefix(s, t) == Len(s) <= Len(t) /\ SubSeq(t, 1, Len(s)) = s

\* C15: the transcript is append-only: across every step the transcript
\* before the step is a prefix of the transcript after it.
C15_AppendOnly == [][IsPrefix(messages, messages')]_vars

\* After adjudication of a debate in which the guard fired in the second
\* turn: the first utterance is still the one recorded first.
C15_Witness ==
    /\ Done
    /\ Len(messages) = 8
    /\ messages[1].content = Fresh(1)
    /\ messages[2].content = Filler

TurnStep == pc = "agent" /\ steps' = steps + 1

JudgeStep == pc = "judge" /\ steps' = steps + 1

\* C16: a turn changes only messages, round_number and next_speaker and
\* leaves topic, winner, summary and justification unchanged; adjudication
\* changes only summary, winner and justification and leaves topic, messages,
\* round_number and next_speaker unchanged.
C16_Frame ==
    [][/\ TurnStep => UNCHANGED <<topic, winner, summary, justification>>
       /\ JudgeStep => UNCHANGED <<topic, messages, round_number,
                                   next_speaker>>]_vars

\* Adjudication has set the three fields and left the debate as it was.
C16_Witness ==
    /\ Done
    /\ winner # Unset
    /\ summary # Unset
    /\ justification # Unset
    /\ round_number = 8
    /\ next_speaker = Scientist
    /\ messages = UniqueDebate(8)

AllLabels(text) == \A l \in Labels : Occurs(l, text)

AllSentinels ==
    /\ summary = <<FailedSummary>>
    /\ winner = <<NoWinner>>
    /\ justification = <<Malformed>>

\* The text after the first occurrence of label.
After(text, label) ==
    SubSeq(text, First(Positions(text, label)) + 1, Len(text))

\* The text before the first occurrence of any of the labels in stops.
Before(text, stops) ==
    LET P == {i \in 1..Len(text) : text[i] \in stops}
    IN  IF P = {} THEN text ELSE SubSeq(text, 1, First(P) - 1)

\* The three substrings of the answer, trimmed: what follows the first
\* SUMMARY: up to the next SUMMARY: or WINNER:, what follows the first
\* WINNER: up to the next WINNER: or JUSTIFICATION:, and what follows the
\* first JUSTIFICATION: up to the next one.
AllParsed ==
    /\ summary = <<Strip(Before(After(result, SUMMARY), {SUMMARY, WINNER}))>>
    /\ winner =
         <<Strip(Before(After(result, WINNER), {WINNER, JUSTIFICATION}))>>
    /\ justification =
         <<Strip(Before(After(result, JUSTIFICATION), {JUSTIFICATION}))>>

\* C17 as stated: the result is either the three sentinels or the three
\* parsed substrings, and whenever all three labels occur in the answer the
\* sentinels are not returned and the parsed substrings are.
C17_SentinelsOnlyWhenLabelAbsent ==
    Done =>
        /\ AllSentinels \/ (AllLabels(result) /\ AllParsed)
        /\ AllLabels(result) => (~AllSentinels /\ AllParsed)

\* C17 (amended): the result is all-or-nothing and the fallback is taken only
\* when a label is absent: the answer lacking a label, all three sentinels are
\* returned; all three labels occurring in it (in any order, or more than
\* once), the three parsed substrings are returned as they are, which are the
\* sentinel sentences only if the answer itself spells them there.
C17_AllOrNothing ==
    Done =>
        /\ ~AllLabels(result) => AllSentinels
        /\ AllLabels(result) => AllParsed
        /\ (AllLabels(result) /\ AllSentinels) =>
               /\ Occurs(FailedSummary[1], result)
               /\ Occurs(NoWinner[1], result)
               /\ Occurs(Malformed[1], result)

\* The labels came out of order and the substrings were returned as they are.
C17_Witness ==
    /\ Done
    /\ result = <<WINNER, "a", JUSTIFICATION, SUMMARY>>
    /\ summary = <<<< >>>>
    /\ winner = <<<<"a">>>>
    /\ justification = <<<<SUMMARY>>>>

\* C18: winner, summary and justification are all unset while the debate is
\* in progress and are all set together exactly when the run is at END; when
\* they are set, round_number is 8 and the transcript has 8 utterances.
C18_ResultOnlyAtEnd ==
    /\ (winner # Unset) <=> Done
    /\ (summary # Unset) <=> Done
    /\ (justification # Unset) <=> Done
    /\ Done => round_number = 8 /\ Len(messages) = 8

\* The run is at END with the three fields set, here by the fallback.
C18_Witness ==
    /\ Done
    /\ result = <<"a", " ", "a">>
    /\ winner = <<NoWinner>>
    /\ summary = <<FailedSummary>>
    /\ justification = <<Malformed>>
    /\ round_number = 8

\* C19: every utterance in the transcript either has the filler text or has
\* a text different from the texts of all utterances before it.  (That the
\* filler can occur more than once is the state C19_Witness describes.)
C19_NoRepeatButFiller ==
    \A i \in 1..Len(messages) :
        \/ messages[i].content = Filler
        \/ \A j \in 1..(i - 1) : messages[j].content # messages[i].content

\* A transcript that holds the filler twice, the second time in place of a
\* repetition of the first utterance, and between them a text of its own.
C19_Witness ==
    /\ Len(messages) = 3
    /\ messages[1].content = Fresh(1)
    /\ messages[2].content = Filler
    /\ messages[3].content = Filler
    /\ response = Fresh(1)

\* C20: with the unmodified router a run from the initial state takes 9 node
\* invocations to END (8 turns and 1 adjudication) and never more, which is
\* below the ceiling of 15, so the ceiling abort is not reachable whatever the
\* generation returns; and the transcript never holds more than 8 utterances.
C20_CeilingUnreachable ==
    /\ pc # GraphRecursionError
    /\ steps <= 9
    /\ steps < RecursionLimit
    /\ Done => steps = 9 /\ Turns = 8 /\ judge_runs = 1
    /\ Len(messages) <= 8

\* A completed run in which every turn fell back on the filler.
C20_Witness ==
    /\ Done
    /\ steps = 9
    /\ judge_runs = 1
    /\ \A i \in 1..8 : messages[i].content = Filler

====
